---- MODULE Spec2Model ----
(***************************************************************************)
(* Model of the study-management backend (Express routes over a MySQL     *)
(* pool and a generative-text client).  The state is the five tables, the *)
(* auto-increment counters, the wall clock, the request being served, the *)
(* response it produced and the generation calls it made.  Under Spec     *)
(* requests are served one after another (sequential execution); under    *)
(* ConcurrentSpec the statements of two status saves interleave.  Every    *)
(* database statement with well-formed bind parameters succeeds.          *)
(***************************************************************************)
EXTENDS Integers, Sequences, FiniteSets, TLC

\* ---------------------------------------------------------------- bounds
\* Number of requests a behaviour serves.
MaxRequests == 3
\* Longest array the generation service returns for a flashcard request.
MaxCards == 2
\* Number of chat_history rows the database stamps with the same second.
MaxTies == 2

\* ------------------------------------------------------ program constants
MsPerDay == 86400000
DaysPerWeek == 7
DefaultCardCount == 5

\* ------------------------------------------------------------- JS values
\* A request field or object property: <<>> when absent (undefined),
\* <<v>> when present.
None == <<>>
Some(v) == <<v>>

\* JavaScript truthiness of an optional field: undefined is falsy, and so
\* are the string "" and the number 0.
TruthyStr(f) == f # None /\ f[1] # ""
TruthyNum(f) == f # None /\ f[1] # 0

\* A JavaScript string built by a template literal or by +: the sequence of
\* its pieces (literal parts and interpolated strings).  It is the empty
\* string, which is falsy, when every piece is "".
IsEmptyText(t) == \A i \in DOMAIN t : t[i] = ""

\* Math.ceil(a / b) for b > 0 (Math.ceil of a negative fraction rounds to 0).
CeilDiv(a, b) == -((-a) \div b)

\* new Date(deadline) - the epoch milliseconds a date string parses to.
DateParse(s) ==
  CASE s = "1970-01-01" -> 0
    [] s = "1970-01-08" -> DaysPerWeek * MsPerDay

\* ------------------------------------------------------------------ state
VARIABLES
  clock,           \* the server's wall-clock time in ms (new Date())
  dbClock,         \* the database's CURRENT_TIMESTAMP, in seconds
  study_plans,     \* table study_plans: set of rows
  notes,           \* table notes
  flashcard_sets,  \* table flashcard_sets
  flashcards,      \* table flashcards
  chat_history,    \* table chat_history
  autoInc,         \* next AUTO_INCREMENT id of each table
  req,             \* the request being served (or served last); again tells
                   \* whether it repeats the request served before it
  resp,            \* the response sent last
  genCalls,        \* generation-service calls made by the request in req
  pc,              \* position of the request in flight ("idle": none)
  local,           \* local variables of the request in flight
  served           \* number of requests received

vars == <<clock, dbClock, study_plans, notes, flashcard_sets, flashcards, chat_history,
          autoInc, req, resp, genCalls, pc, local, served>>

tables == <<study_plans, notes, flashcard_sets, flashcards, chat_history, autoInc>>

\* Times the clock can show: midnight of 1970-01-01, and 1 ms later.
Times == {0, 1}

NoLocal == [message |-> "", history |-> <<>>, reply |-> ""]

Init ==
  /\ clock = 0
  /\ dbClock = 0
  /\ study_plans = {}
  /\ notes = {}
  /\ flashcard_sets = {}
  /\ flashcards = {}
  /\ chat_history = {}
  /\ autoInc = [plans |-> 1, notes |-> 1, sets |-> 1, cards |-> 1, chat |-> 1]
  /\ req = [op |-> "none", body |-> <<>>, again |-> FALSE]
  /\ resp = [status |-> 0, body |-> <<>>]
  /\ genCalls = <<>>
  /\ pc = "idle"
  /\ local = NoLocal
  /\ served = 0

\* The times a handler can read off the clock: time never runs backwards.
Nows == {t \in Times : t >= clock}

\* A request is received: no other request is in flight.
Receive(op, body) ==
  /\ pc = "idle"
  /\ served < MaxRequests
  /\ served' = served + 1
  /\ req' = [op |-> op, body |-> body, again |-> (req.op = op /\ req.body = body)]

\* res.status(s).json(b)
Respond(s, b) == resp' = [status |-> s, body |-> b]

\* ------------------------------------------------- generation service
\* What model.generateContent / chat.sendMessage can do: throw, or return
\* a text.  A text either parses as JSON (to value) or does not.
NoJson == [kind |-> "none", items |-> <<>>]
GenFailure == [ok |-> FALSE, parses |-> FALSE, value |-> NoJson, text |-> ""]
GenGarbage == [ok |-> TRUE, parses |-> FALSE, value |-> NoJson, text |-> "not json"]
GenJson(v) == [ok |-> TRUE, parses |-> TRUE, value |-> v, text |-> "json"]
JsonArray(items) == [kind |-> "array", items |-> items]
\* The JSON object {"plan": [...]}: one member, which holds the array of items.
JsonObject(items) == [kind |-> "object", items |-> items]

\* Mutant of ParseThrows: a text that is not JSON is repaired, not rejected.
ParseRepaired(out) == FALSE

\* JSON.parse(text) throws on a text that is not JSON.
ParseThrows(out) == ~out.parses

\* -------------------------------------------------------------- flashcards
\* Request bodies {topic, count}: both optional.
FlashcardBodies ==
  {[topic |-> None, count |-> None], [topic |-> Some("Bio"), count |-> Some(3)]}

GoodCard == [question |-> Some("Q1"), answer |-> Some("A1")]
\* A generated object that lacks the "answer" property.
BadCard == [question |-> Some("Q2"), answer |-> None]

\* The arrays the service returns: well-formed cards, or well-formed cards
\* up to a first malformed one.
GoodCards(k) == [i \in 1..k |-> GoodCard]
CardArrays ==
  {GoodCards(k) : k \in 0..MaxCards}
    \cup {Append(GoodCards(k), BadCard) : k \in 0..(MaxCards - 1)}

FlashcardOutputs == {GenFailure, GenGarbage} \cup {GenJson(JsonArray(s)) : s \in CardArrays}

\* pool.execute rejects a bind parameter that is undefined.
Bindable(card) == card.question # None /\ card.answer # None

\* Number of cards the insert loop stores before a card insert throws.
RECURSIVE InsertedPrefix(_)
InsertedPrefix(items) ==
  IF items = <<>> \/ ~Bindable(Head(items)) THEN 0
  ELSE 1 + InsertedPrefix(Tail(items))

\* INSERT INTO flashcards (set_id, question, answer, known), one per card.
NewCardRows(setId, items, firstId, n) ==
  {[id |-> firstId + i - 1, set_id |-> setId, question |-> items[i].question[1],
    answer |-> items[i].answer[1], known |-> FALSE] : i \in 1..n}

\* topic || 'General Study'
StoredTopic(topic) == IF TruthyStr(topic) THEN topic[1] ELSE "General Study"

\* count || 5
CardCount(count) == IF TruthyNum(count) THEN count[1] ELSE DefaultCardCount

\* cards pushed to the response, in insertion order
RespCards(items, firstId) ==
  [i \in 1..Len(items) |->
     [id |-> firstId + i - 1, question |-> items[i].question[1],
      answer |-> items[i].answer[1], known |-> FALSE]]

\* Mutant of NewSetRow: total_count is the requested count.
NewSetRowRequested(setId, body, generatedCards) ==
  [id |-> setId, topic |-> StoredTopic(body.topic),
   total_count |-> CardCount(body.count), known_count |-> 0]

\* The row INSERT INTO flashcard_sets stores:
\* [null, topic || 'General Study', generatedCards.length, 0]
NewSetRow(setId, body, generatedCards) ==
  [id |-> setId, topic |-> StoredTopic(body.topic),
   total_count |-> Len(generatedCards), known_count |-> 0]

GenerateFlashcards ==
  \E body \in FlashcardBodies, out \in FlashcardOutputs :
    LET topic == body.topic
        count == body.count
        setId == autoInc.sets
        items == out.value.items
        n == InsertedPrefix(items)
        setRow == NewSetRow(setId, body, items)
        failure == [error |-> "Failed to generate flashcards from AI. Check API key/model."]
    IN
    /\ Receive("generate-flashcards", body)
    /\ genCalls' = <<[endpoint |-> "generate-flashcards", structured |-> TRUE,
                      topic |-> topic, cardCount |-> CardCount(count), result |-> out]>>
    /\ IF ~out.ok \/ ParseThrows(out) \/ out.value.kind # "array"
       THEN /\ Respond(500, failure)
            /\ UNCHANGED <<flashcard_sets, flashcards, autoInc>>
       ELSE /\ flashcard_sets' = flashcard_sets \cup {setRow}
            /\ flashcards' = flashcards \cup NewCardRows(setId, items, autoInc.cards, n)
            /\ autoInc' = [autoInc EXCEPT !.sets = @ + 1, !.cards = @ + n]
            /\ IF n < Len(items)
               THEN Respond(500, failure)
               ELSE Respond(200, [success |-> TRUE,
                                  flashcardSet |-> [id |-> setId, topic |-> StoredTopic(topic),
                                                    cards |-> RespCards(items, autoInc.cards),
                                                    knownCount |-> 0, totalCount |-> n]])
    /\ UNCHANGED <<clock, dbClock, study_plans, notes, chat_history, pc, local>>

\* Mutant of UpdateCardKnown: the flag is flipped, not set.
UpdateCardToggled(cards, known, cardId, setId) ==
  {IF c.id = cardId /\ c.set_id = setId THEN [c EXCEPT !.known = ~@] ELSE c : c \in cards}

\* Mutant of UpdateCardKnown: the WHERE clause names the card id only.
UpdateCardAnySet(cards, known, cardId, setId) ==
  {IF c.id = cardId THEN [c EXCEPT !.known = known] ELSE c : c \in cards}

\* UPDATE flashcards SET known = ? WHERE id = ? AND set_id = ?
UpdateCardKnown(cards, known, cardId, setId) ==
  {IF c.id = cardId /\ c.set_id = setId THEN [c EXCEPT !.known = known] ELSE c : c \in cards}

\* SELECT ... FROM flashcard_sets WHERE id = ?
SelectSet(sets, setId) == {s \in sets : s.id = setId}

\* SELECT id, question, answer, known FROM flashcards WHERE set_id = ?
SelectCards(cards, setId) == {c \in cards : c.set_id = setId}

\* Mutant of NewKnownCount: counts the set's cards instead of its known cards.
NewKnownCountAll(cards) == Cardinality(cards)

\* cards.filter(c => c.known).length
NewKnownCount(cards) == Cardinality({c \in cards : c.known})

\* Mutant of UpdateKnownCount: the count is added to the stored one.
UpdateKnownCountAdded(sets, n, setId) ==
  {IF s.id = setId THEN [s EXCEPT !.known_count = @ + n] ELSE s : s \in sets}

\* UPDATE flashcard_sets SET known_count = ? WHERE id = ?
UpdateKnownCount(sets, n, setId) ==
  {IF s.id = setId THEN [s EXCEPT !.known_count = n] ELSE s : s \in sets}

\* The ids a request can name for a table: those issued so far, and the
\* next one, which no row has.
IdInputs(nextId) == 1..nextId

SaveFlashcardStatus ==
  \E setId \in IdInputs(autoInc.sets), cardId \in IdInputs(autoInc.cards),
     known \in BOOLEAN :
    LET cardsAfter == UpdateCardKnown(flashcards, known, cardId, setId)
        sets == SelectSet(flashcard_sets, setId)
        cards == SelectCards(cardsAfter, setId)
        newKnownCount == NewKnownCount(cards)
    IN
    /\ Receive("save-flashcard-status", [setId |-> setId, cardId |-> cardId, known |-> known])
    /\ genCalls' = <<>>
    /\ flashcards' = cardsAfter
    /\ IF sets # {}
       THEN /\ flashcard_sets' = UpdateKnownCount(flashcard_sets, newKnownCount, setId)
            /\ Respond(200, [success |-> TRUE,
                             flashcardSet |-> [id |-> setId,
                                               totalCount |-> (CHOOSE s \in sets : TRUE).total_count,
                                               knownCount |-> newKnownCount,
                                               cards |-> cards]])
       ELSE /\ UNCHANGED flashcard_sets
            /\ Respond(404, [error |-> "Flashcard set not found"])
    /\ UNCHANGED <<clock, dbClock, study_plans, notes, chat_history, autoInc, pc, local>>

\* Whether deleting a flashcard_sets row makes the database delete the
\* flashcards rows that reference it (no database-level cascade).
OnDeleteCascade == FALSE

\* DELETE FROM flashcard_sets WHERE id = ?
DeleteSetRows(sets, id) == {s \in sets : s.id # id}

DeleteFlashcard ==
  \E id \in IdInputs(autoInc.sets) :
    /\ Receive("delete-flashcard", [id |-> id])
    /\ genCalls' = <<>>
    /\ flashcard_sets' = DeleteSetRows(flashcard_sets, id)
    /\ flashcards' = IF OnDeleteCascade /\ SelectSet(flashcard_sets, id) # {}
                     THEN {c \in flashcards : c.set_id # id}
                     ELSE flashcards
    /\ Respond(200, [success |-> TRUE])
    /\ UNCHANGED <<clock, dbClock, study_plans, notes, chat_history, autoInc, pc, local>>

\* ------------------------------------------------------------ study plans
\* Request bodies {courseName, deadline, hoursPerDay}.
DeadlineInputs == {"1970-01-01", "1970-01-08"}
CompletePlanBodies ==
  [courseName : {Some("Math")}, deadline : {Some(d) : d \in DeadlineInputs},
   hoursPerDay : {Some(2)}]
\* Complete bodies, bodies that lack one of the three fields, and a complete
\* body whose hoursPerDay is negative.
StudyPlanBodies ==
  CompletePlanBodies
    \cup {[b EXCEPT !.courseName = None] : b \in CompletePlanBodies}
    \cup {[b EXCEPT !.deadline = None] : b \in CompletePlanBodies}
    \cup {[b EXCEPT !.hoursPerDay = None] : b \in CompletePlanBodies}
    \cup {[courseName |-> Some("Math"), deadline |-> Some("1970-01-08"),
            hoursPerDay |-> Some(-2)]}

WeekOne == [week |-> 1, topic |-> "Fundamentals", hours |-> 14,
            tasks |-> <<"Read chapters 1-3", "Complete practice exercises">>]
\* The service throws, returns a text that is not JSON, the array of weeks, or
\* the weeks wrapped in an object.
PlanOutputs ==
  {GenFailure, GenGarbage, GenJson(JsonArray(<<WeekOne>>)),
   GenJson(JsonObject(<<WeekOne>>))}

\* JSON.stringify(value) and JSON.parse(text) of a stored plan.
JsonStringify(v) == [json |-> v]
JsonParse(t) == t.json

\* Mutant of DaysUntil: Math.floor in place of Math.ceil.
DaysUntilFloor(deadline, today) == (DateParse(deadline) - today) \div MsPerDay

\* Mutant of DaysUntil: the subtraction the wrong way round.
DaysUntilReversed(deadline, today) == CeilDiv(today - DateParse(deadline), MsPerDay)

\* Math.ceil((deadlineDate - today) / (1000 * 60 * 60 * 24))
DaysUntil(deadline, today) == CeilDiv(DateParse(deadline) - today, MsPerDay)

\* daysUntil * hoursPerDay
TotalHours(daysUntil, hoursPerDay) == daysUntil * hoursPerDay

\* Math.ceil(daysUntil / 7), the number of weekly phases the prompt asks for
PromptWeeks(daysUntil) == CeilDiv(daysUntil, DaysPerWeek)

\* The row INSERT INTO study_plans stores.
NewPlanRow(id, courseName, deadline, hoursPerDay, daysUntil, totalHours, planData) ==
  [id |-> id, course_name |-> courseName, deadline |-> deadline,
   hours_per_day |-> hoursPerDay, days_until |-> daysUntil,
   total_hours |-> totalHours, plan_json |-> JsonStringify(planData),
   progress |-> 0, completed |-> FALSE]

GenerateStudyPlan ==
  \E body \in StudyPlanBodies, today \in Nows, out \in PlanOutputs :
    /\ Receive("generate-study-plan", body)
    /\ IF ~TruthyStr(body.courseName) \/ ~TruthyStr(body.deadline)
          \/ ~TruthyNum(body.hoursPerDay)
       THEN /\ Respond(400, [error |-> "Missing required fields"])
            /\ genCalls' = <<>>
            /\ UNCHANGED <<clock, dbClock, study_plans, autoInc>>
       ELSE LET courseName == body.courseName[1]
                deadline == body.deadline[1]
                hoursPerDay == body.hoursPerDay[1]
                daysUntil == DaysUntil(deadline, today)
                totalHours == TotalHours(daysUntil, hoursPerDay)
                planData == out.value
                id == autoInc.plans
            IN
            /\ clock' = today
            /\ IF daysUntil <= 0
               THEN /\ Respond(400, [error |-> "Deadline must be in the future"])
                    /\ genCalls' = <<>>
                    /\ UNCHANGED <<study_plans, autoInc>>
               ELSE /\ genCalls' = <<[endpoint |-> "generate-study-plan",
                                      structured |-> FALSE,
                                      courseName |-> courseName, days |-> daysUntil,
                                      weeks |-> PromptWeeks(daysUntil),
                                      totalHours |-> totalHours,
                                      hoursPerDay |-> hoursPerDay, result |-> out]>>
                    /\ IF ~out.ok \/ ParseThrows(out)
                       THEN /\ Respond(500, [error |-> "Failed to generate study plan from AI. Check API key/model."])
                            /\ UNCHANGED <<study_plans, autoInc>>
                       ELSE /\ study_plans' = study_plans \cup
                                 {NewPlanRow(id, courseName, deadline, hoursPerDay,
                                             daysUntil, totalHours, planData)}
                            /\ autoInc' = [autoInc EXCEPT !.plans = @ + 1]
                            /\ Respond(200, [success |-> TRUE,
                                  studyPlan |-> [id |-> id, courseName |-> courseName,
                                                 deadline |-> deadline,
                                                 hoursPerDay |-> hoursPerDay,
                                                 daysUntil |-> daysUntil,
                                                 totalHours |-> totalHours,
                                                 plan |-> planData, progress |-> 0,
                                                 completed |-> FALSE]])
    /\ UNCHANGED <<dbClock, notes, flashcard_sets, flashcards, chat_history, pc, local>>

\* Mutant of UpdateProgress: completed is derived from progress.
UpdateProgressDerived(plans, progress, completed, id) ==
  {IF r.id = id THEN [r EXCEPT !.progress = progress, !.completed = (progress = 100)]
   ELSE r : r \in plans}

\* UPDATE study_plans SET progress = ?, completed = ? WHERE id = ?
UpdateProgress(plans, progress, completed, id) ==
  {IF r.id = id THEN [r EXCEPT !.progress = progress, !.completed = completed] ELSE r
     : r \in plans}

\* SELECT ... FROM study_plans WHERE id = ?
SelectPlan(plans, id) == {r \in plans : r.id = id}

\* Request values of progress; the handler takes any value of the body.
ProgressInputs == {50, 100, 150}

UpdateStudyProgress ==
  \E id \in IdInputs(autoInc.plans), progress \in ProgressInputs, completed \in BOOLEAN :
    LET plansAfter == UpdateProgress(study_plans, progress, completed, id)
        rows == SelectPlan(plansAfter, id)
    IN
    /\ Receive("update-study-progress",
               [id |-> id, progress |-> progress, completed |-> completed])
    /\ genCalls' = <<>>
    /\ study_plans' = plansAfter
    /\ IF rows # {}
       THEN LET row == CHOOSE r \in rows : TRUE
            IN Respond(200, [success |-> TRUE,
                             plan |-> [id |-> row.id, courseName |-> row.course_name,
                                       deadline |-> row.deadline,
                                       hoursPerDay |-> row.hours_per_day,
                                       daysUntil |-> row.days_until,
                                       totalHours |-> row.total_hours,
                                       plan |-> JsonParse(row.plan_json),
                                       progress |-> row.progress,
                                       completed |-> row.completed]])
       ELSE Respond(404, [error |-> "Study plan not found"])
    /\ UNCHANGED <<clock, dbClock, notes, flashcard_sets, flashcards, chat_history, autoInc,
                   pc, local>>

\* Mutant of DeletePlanRows: the WHERE clause is missing.
DeleteAllPlanRows(plans, id) == {}

\* DELETE FROM study_plans WHERE id = ?
DeletePlanRows(plans, id) == {r \in plans : r.id # id}

DeleteStudyPlan ==
  \E id \in IdInputs(autoInc.plans) :
    /\ Receive("delete-studyplan", [id |-> id])
    /\ genCalls' = <<>>
    /\ study_plans' = DeletePlanRows(study_plans, id)
    /\ Respond(200, [success |-> TRUE])
    /\ UNCHANGED <<clock, dbClock, notes, flashcard_sets, flashcards, chat_history, autoInc,
                   pc, local>>

\* ------------------------------------------------------------------ notes
GenText(t) == [ok |-> TRUE, parses |-> FALSE, value |-> NoJson, text |-> t]
NoteOutputs == {GenFailure, GenText("## Summary"), GenText("")}

\* Request bodies {fileName, fileContent} and {topic, content}.  The PDF
\* upload never reads fileContent; a topic makes the content optional.
FileBodies == [fileName : {None, Some("a.txt")}, fileContent : {None, Some("raw text")}]
PdfBodies == {b \in FileBodies : b.fileContent = None}
AiNoteBodies ==
  {b \in [topic : {None, Some("Bio")}, content : {None, Some("raw text")}] :
     b.topic = None \/ b.content = None}

\* Mutant of NewNoteRow: every note is stored as an AI note.
NewNoteRowAi(id, title, content, source, fileName) ==
  [id |-> id, title |-> title, content |-> content, source |-> "ai",
   file_name |-> fileName]

\* INSERT INTO notes (user_id, title, content, source, file_name)
NewNoteRow(id, title, content, source, fileName) ==
  [id |-> id, title |-> title, content |-> content, source |-> source,
   file_name |-> fileName]

\* `Notes from ${fileName}`
NotesFrom(fileName) == <<"Notes from ", fileName>>

\* `# Notes from ${fileName}\n\n## Summary\nThis is a mock extraction ...`
PdfContent(fileName) ==
  <<"# ">> \o NotesFrom(fileName) \o <<"## Summary: a mock extraction from the uploaded PDF file">>

\* `# ${fileName}\n\n${fileContent}\n\n---\n*Processed on ${...}*`
LocalFileContent(fileName, fileContent) ==
  <<"# ", fileName, fileContent, "Processed on <time>">>

\* text + `\n\n---\n*Generated by AI on ${...}*`
AiNoteContent(text) == <<text, "Generated by AI on <time>">>

UploadPdf ==
  \E body \in PdfBodies :
    LET id == autoInc.notes
        title == NotesFrom(body.fileName[1])
        content == PdfContent(body.fileName[1])
    IN
    /\ Receive("upload-pdf", body)
    /\ genCalls' = <<>>
    /\ IF body.fileName = None
       THEN \* the file_name bind parameter is undefined: pool.execute throws
            /\ Respond(500, [error |-> "Failed to upload PDF"])
            /\ UNCHANGED <<notes, autoInc>>
       ELSE /\ notes' = notes \cup {NewNoteRow(id, title, content, "pdf", body.fileName)}
            /\ autoInc' = [autoInc EXCEPT !.notes = @ + 1]
            /\ Respond(200, [success |-> TRUE,
                             note |-> [id |-> id, title |-> title, content |-> content,
                                       source |-> "pdf"]])
    /\ UNCHANGED <<clock, dbClock, study_plans, flashcard_sets, flashcards, chat_history,
                   pc, local>>

UploadLocalFile ==
  \E body \in FileBodies :
    LET id == autoInc.notes
        title == NotesFrom(body.fileName[1])
        content == LocalFileContent(body.fileName[1], body.fileContent[1])
    IN
    /\ Receive("upload-local-file", body)
    /\ genCalls' = <<>>
    /\ IF ~TruthyStr(body.fileName) \/ ~TruthyStr(body.fileContent)
       THEN /\ Respond(400, [error |-> "Missing file data"])
            /\ UNCHANGED <<notes, autoInc>>
       ELSE /\ notes' = notes \cup
                 {NewNoteRow(id, title, content, "local_file", body.fileName)}
            /\ autoInc' = [autoInc EXCEPT !.notes = @ + 1]
            /\ Respond(200, [success |-> TRUE,
                             note |-> [id |-> id, title |-> title, content |-> content,
                                       source |-> "local_file"]])
    /\ UNCHANGED <<clock, dbClock, study_plans, flashcard_sets, flashcards, chat_history, pc, local>>

\* topic || 'AI Generated Notes'
NoteTitle(topic) == IF TruthyStr(topic) THEN topic ELSE Some("AI Generated Notes")

GenerateAiNotes ==
  \E body \in AiNoteBodies, out \in NoteOutputs :
    LET id == autoInc.notes
        title == NoteTitle(body.topic)
        noteContent == AiNoteContent(out.text)
    IN
    /\ Receive("generate-ai-notes", body)
    /\ IF ~TruthyStr(body.topic) /\ ~TruthyStr(body.content)
       THEN /\ Respond(400, [error |-> "Missing topic or content"])
            /\ genCalls' = <<>>
            /\ UNCHANGED <<notes, autoInc>>
       ELSE /\ genCalls' = <<[endpoint |-> "generate-ai-notes", structured |-> FALSE,
                              topic |-> body.topic, content |-> body.content,
                              result |-> out]>>
            /\ IF ~out.ok
               THEN /\ Respond(500, [error |-> "Failed to generate AI notes from AI. Check API key/model."])
                    /\ UNCHANGED <<notes, autoInc>>
               ELSE /\ notes' = notes \cup {NewNoteRow(id, title, noteContent, "ai", None)}
                    /\ autoInc' = [autoInc EXCEPT !.notes = @ + 1]
                    /\ Respond(200, [success |-> TRUE,
                                     note |-> [id |-> id, title |-> title,
                                               content |-> noteContent, source |-> "ai"]])
    /\ UNCHANGED <<clock, dbClock, study_plans, flashcard_sets, flashcards, chat_history, pc, local>>

\* DELETE FROM notes WHERE id = ?
DeleteNoteRows(rows, id) == {r \in rows : r.id # id}

DeleteNote ==
  \E id \in IdInputs(autoInc.notes) :
    /\ Receive("delete-note", [id |-> id])
    /\ genCalls' = <<>>
    /\ notes' = DeleteNoteRows(notes, id)
    /\ Respond(200, [success |-> TRUE])
    /\ UNCHANGED <<clock, dbClock, study_plans, flashcard_sets, flashcards, chat_history,
                   autoInc, pc, local>>

\* ------------------------------------------------------------------- chat
MessageInputs == {None, Some("hello")}
ChatOutputs == {GenFailure, GenText("answer")}

\* The seconds the database can stamp an inserted chat_history row with:
\* the second of the last insert, or a later one.
InsertTimes ==
  {t \in {dbClock, dbClock + 1} :
     Cardinality({r \in chat_history : r.created_at = t}) < MaxTies}

\* INSERT INTO chat_history (user_id, role, content); created_at is the
\* database's clock at the insert.
NewChatRow(id, role, content, at) ==
  [id |-> id, role |-> role, content |-> content, created_at |-> at]

\* Mutant of OrderByCreatedAt: newest first, as the other listings order.
RECURSIVE OrderByCreatedAtDesc(_)
OrderByCreatedAtDesc(rows) ==
  IF rows = {} THEN {<<>>}
  ELSE UNION {{<<r>> \o rest : rest \in OrderByCreatedAtDesc(rows \ {r})}
                : r \in {x \in rows : \A y \in rows : x.created_at >= y.created_at}}

\* The sequences ORDER BY created_at ASC can return for a set of rows: rows
\* with equal created_at come in either order.
RECURSIVE OrderByCreatedAt(_)
OrderByCreatedAt(rows) ==
  IF rows = {} THEN {<<>>}
  ELSE UNION {{<<r>> \o rest : rest \in OrderByCreatedAt(rows \ {r})}
                : r \in {x \in rows : \A y \in rows : x.created_at <= y.created_at}}

\* Mutant of AdapterRole: the persisted role is handed over untranslated.
AdapterRoleVerbatim(role) == role

\* row.role === 'user' ? 'user' : 'model'
AdapterRole(role) == IF role = "user" THEN "user" ELSE "model"

\* historyRows.map(row => ({role: ..., parts: [{text: row.content}]}))
ToAdapterHistory(rows) ==
  [i \in 1..Len(rows) |-> [role |-> AdapterRole(rows[i].role), text |-> rows[i].content]]

\* POST /chat up to its first await: validation, then the user message insert.
ChatSaveUser ==
  \E message \in MessageInputs, at \in InsertTimes :
    /\ Receive("chat", [message |-> message])
    /\ genCalls' = <<>>
    /\ IF ~TruthyStr(message)
       THEN /\ Respond(400, [error |-> "Message is required"])
            /\ UNCHANGED <<dbClock, chat_history, autoInc, pc, local>>
       ELSE /\ dbClock' = at
            /\ chat_history' = chat_history \cup
                 {NewChatRow(autoInc.chat, "user", message[1], at)}
            /\ autoInc' = [autoInc EXCEPT !.chat = @ + 1]
            /\ pc' = "chat-saved"
            /\ local' = [NoLocal EXCEPT !.message = message[1]]
            /\ resp' = [status |-> 0, body |-> <<>>]
    /\ UNCHANGED <<clock, study_plans, notes, flashcard_sets, flashcards>>

\* SELECT role, content FROM chat_history ORDER BY created_at ASC
ChatLoadHistory ==
  /\ pc = "chat-saved"
  /\ \E rows \in OrderByCreatedAt(chat_history) :
       local' = [local EXCEPT !.history = ToAdapterHistory(rows)]
  /\ pc' = "chat-loaded"
  /\ UNCHANGED <<clock, dbClock, study_plans, notes, flashcard_sets, flashcards, chat_history,
                 autoInc, req, resp, genCalls, served>>

\* Mutant of ChatSend: a failed generation call rolls the user message back.
ChatSendRollback ==
  /\ pc = "chat-loaded"
  /\ \E out \in ChatOutputs :
       /\ genCalls' = <<[endpoint |-> "chat", structured |-> FALSE,
                         history |-> local.history, message |-> local.message,
                         result |-> out]>>
       /\ IF out.ok
          THEN /\ local' = [local EXCEPT !.reply = out.text]
               /\ pc' = "chat-replied"
               /\ UNCHANGED <<resp, chat_history>>
          ELSE /\ Respond(500, [error |-> "Failed to process chat message from AI. Check API key/model."])
               /\ pc' = "idle"
               /\ local' = NoLocal
               /\ chat_history' = {r \in chat_history : r.id # autoInc.chat - 1}
  /\ UNCHANGED <<clock, dbClock, study_plans, notes, flashcard_sets, flashcards,
                 autoInc, req, served>>

\* Mutant of ChatSend: a failed generation call is attempted a second time.
ChatSendRetry ==
  /\ pc = "chat-loaded"
  /\ \E first \in ChatOutputs, out \in ChatOutputs :
       LET call(o) == [endpoint |-> "chat", structured |-> FALSE,
                       history |-> local.history, message |-> local.message,
                       result |-> o]
       IN
       /\ genCalls' = IF first.ok THEN <<call(first)>> ELSE <<call(first), call(out)>>
       /\ IF first.ok \/ out.ok
          THEN /\ local' = [local EXCEPT !.reply = "answer"]
               /\ pc' = "chat-replied"
               /\ UNCHANGED resp
          ELSE /\ Respond(500, [error |-> "Failed to process chat message from AI. Check API key/model."])
               /\ pc' = "idle"
               /\ local' = NoLocal
  /\ UNCHANGED <<clock, dbClock, study_plans, notes, flashcard_sets, flashcards, chat_history,
                 autoInc, req, served>>

\* model.startChat({history}) and chat.sendMessage(message)
ChatSend ==
  /\ pc = "chat-loaded"
  /\ \E out \in ChatOutputs :
       /\ genCalls' = <<[endpoint |-> "chat", structured |-> FALSE,
                         history |-> local.history, message |-> local.message,
                         result |-> out]>>
       /\ IF out.ok
          THEN /\ local' = [local EXCEPT !.reply = out.text]
               /\ pc' = "chat-replied"
               /\ UNCHANGED resp
          ELSE /\ Respond(500, [error |-> "Failed to process chat message from AI. Check API key/model."])
               /\ pc' = "idle"
               /\ local' = NoLocal
  /\ UNCHANGED <<clock, dbClock, study_plans, notes, flashcard_sets, flashcards, chat_history,
                 autoInc, req, served>>

\* The assistant row insert and the response.
ChatSaveReply ==
  /\ pc = "chat-replied"
  /\ \E at \in InsertTimes :
       /\ dbClock' = at
       /\ chat_history' = chat_history \cup
            {NewChatRow(autoInc.chat, "assistant", local.reply, at)}
  /\ autoInc' = [autoInc EXCEPT !.chat = @ + 1]
  /\ Respond(200, [success |-> TRUE,
                   response |-> [id |-> autoInc.chat, role |-> "assistant",
                                 content |-> local.reply]])
  /\ pc' = "idle"
  /\ local' = NoLocal
  /\ UNCHANGED <<clock, study_plans, notes, flashcard_sets, flashcards, req, genCalls,
                 served>>

\* SELECT id, role, content, created_at as timestamp ... ORDER BY created_at ASC
GetChatHistory ==
  \E rows \in OrderByCreatedAt(chat_history) :
    /\ Receive("get-chat-history", <<>>)
    /\ genCalls' = <<>>
    /\ Respond(200, [success |-> TRUE,
                     chatHistory |-> [i \in 1..Len(rows) |->
                        [id |-> rows[i].id, role |-> rows[i].role,
                         content |-> rows[i].content,
                         timestamp |-> rows[i].created_at]]])
    /\ UNCHANGED <<clock, dbClock, study_plans, notes, flashcard_sets, flashcards, chat_history,
                   autoInc, pc, local>>

\* DELETE FROM chat_history
ClearChatHistory ==
  /\ Receive("clear-chat-history", <<>>)
  /\ genCalls' = <<>>
  /\ chat_history' = {}
  /\ Respond(200, [success |-> TRUE])
  /\ UNCHANGED <<clock, dbClock, study_plans, notes, flashcard_sets, flashcards, autoInc,
                 pc, local>>

\* ---------------------------------------------------------------- exports
\* The strings of the model that hold white space, and what
\* s.replace(/\s+/g, '-') makes of them.
Dashed(s) ==
  CASE s = "General Study" -> "General-Study"
    [] s = "Notes from " -> "Notes-from-"
    [] s = "AI Generated Notes" -> "AI-Generated-Notes"
    [] OTHER -> s

\* The concatenation of a sequence of texts: texts.join('')
RECURSIVE Concat(_)
Concat(texts) == IF texts = <<>> THEN <<>> ELSE Head(texts) \o Concat(Tail(texts))

\* new Date(deadline).toLocaleDateString(): the day of the date
ToLocaleDateString(deadline) == ToString(DateParse(deadline) \div MsPerDay)

\* `Week ${w.week}: ${w.topic}\nHours: ${w.hours}\nTasks:\n${w.tasks.map(t => `  - ${t}`).join('\n')}\n`
WeekText(w) ==
  <<"Week ", ToString(w.week), ": ", w.topic, "Hours: ", ToString(w.hours), "Tasks:">>
    \o Concat([i \in 1..Len(w.tasks) |-> <<"  - ", w.tasks[i]>>])

\* formatStudyPlanForExport(plan), plan a study_plans row with plan its parsed
\* plan_json
FormatStudyPlanForExport(plan) ==
  <<"STUDY PLAN: ", plan.course_name,
    "Deadline: ", ToLocaleDateString(plan.deadline),
    "Hours per day: ", ToString(plan.hours_per_day),
    "Total hours: ", ToString(plan.total_hours),
    "Progress: ", ToString(plan.progress), "%">>
    \o Concat([i \in 1..Len(plan.plan.items) |-> WeekText(plan.plan.items[i])])
    \o <<"Created: ", "<time>">>

\* msg.role.toUpperCase()
ToUpperCase(role) ==
  CASE role = "user" -> "USER"
    [] role = "assistant" -> "ASSISTANT"

\* formatChatHistoryForExport(history)
FormatChatHistoryForExport(history) ==
  <<"CHAT HISTORY">>
    \o Concat([i \in 1..Len(history) |->
                 <<"[", ToString(history[i].created_at), "] ",
                   ToUpperCase(history[i].role), ":", history[i].content>>])

\* card.known ? 'Known' : 'Unknown'
KnownText(known) == IF known THEN "Known" ELSE "Unknown"

\* formatFlashcardsForExport(flashcardSet), cards the set's rows as selected
FormatFlashcardsForExport(set, cards) ==
  <<"FLASHCARDS: ", set.topic,
    "Total Cards: ", ToString(set.total_count),
    "Known: ", ToString(set.known_count)>>
    \o Concat([i \in 1..Len(cards) |->
                 <<"Card ", ToString(i), "Q: ", cards[i].question,
                   "A: ", cards[i].answer, "Status: ", KnownText(cards[i].known)>>])
    \o <<"Created: ", "<time>">>

\* The rows of a SELECT without ORDER BY, as the storage engine returns them:
\* in primary-key order.
RECURSIVE OrderById(_)
OrderById(rows) ==
  IF rows = {} THEN <<>>
  ELSE LET r == CHOOSE x \in rows : \A y \in rows : x.id <= y.id
       IN <<r>> \o OrderById(rows \ {r})

\* SELECT * FROM notes WHERE id = ?
SelectNote(rows, id) == {r \in rows : r.id = id}

\* Mutant of ExportTypes: every type is exported as the chat history is.
ExportTypesAny == {"study", "notes", "chat", "flashcards", "quiz"}

\* The cases of switch (type)
ExportTypes == {"study", "notes", "chat", "flashcards"}
ExportFormats == {"pdf"}

\* Request bodies {type, id, format}: each type with the ids a request can
\* name for its table; the chat export and an unknown type carry no id.
ExportBodies ==
  {[type |-> "study", id |-> Some(i), format |-> f]
     : i \in IdInputs(autoInc.plans), f \in ExportFormats}
    \cup {[type |-> "notes", id |-> Some(i), format |-> f]
            : i \in IdInputs(autoInc.notes), f \in ExportFormats}
    \cup {[type |-> "flashcards", id |-> Some(i), format |-> f]
            : i \in IdInputs(autoInc.sets), f \in ExportFormats}
    \cup {[type |-> t, id |-> None, format |-> f]
            : t \in {"chat", "quiz"}, f \in ExportFormats}

\* content as the switch leaves it ('' when the record is not found)
ExportContent(body, chatRows) ==
  CASE body.type = "study" ->
         LET plans == SelectPlan(study_plans, body.id[1])
             row == CHOOSE r \in plans : TRUE
         IN IF plans # {}
            THEN FormatStudyPlanForExport(
                   [course_name |-> row.course_name, deadline |-> row.deadline,
                    hours_per_day |-> row.hours_per_day,
                    total_hours |-> row.total_hours, progress |-> row.progress,
                    plan |-> JsonParse(row.plan_json)])
            ELSE <<>>
    [] body.type = "notes" ->
         LET rows == SelectNote(notes, body.id[1])
         IN IF rows # {} THEN (CHOOSE r \in rows : TRUE).content ELSE <<>>
    [] body.type = "flashcards" ->
         LET sets == SelectSet(flashcard_sets, body.id[1])
         IN IF sets # {}
            THEN FormatFlashcardsForExport(CHOOSE st \in sets : TRUE,
                   OrderById(SelectCards(flashcards, body.id[1])))
            ELSE <<>>
    [] OTHER -> FormatChatHistoryForExport(chatRows)

\* plan.plan.map(...) in formatStudyPlanForExport throws a TypeError when the
\* parsed plan_json of the selected row is not an array.
ExportThrows(body) ==
  /\ body.type = "study"
  /\ \E r \in SelectPlan(study_plans, body.id[1]) : JsonParse(r.plan_json).kind # "array"

\* filename as the switch leaves it
ExportFilename(body) ==
  CASE body.type = "study" ->
         LET plans == SelectPlan(study_plans, body.id[1])
         IN IF plans # {}
            THEN <<"study-plan-", Dashed((CHOOSE r \in plans : TRUE).course_name),
                   "-<now>.", body.format>>
            ELSE <<>>
    [] body.type = "notes" ->
         LET rows == SelectNote(notes, body.id[1])
             title == (CHOOSE r \in rows : TRUE).title
         IN IF rows # {}
            THEN <<"note-">> \o [i \in 1..Len(title) |-> Dashed(title[i])]
                   \o <<"-<now>.", body.format>>
            ELSE <<>>
    [] body.type = "flashcards" ->
         LET sets == SelectSet(flashcard_sets, body.id[1])
         IN IF sets # {}
            THEN <<"flashcards-", Dashed((CHOOSE st \in sets : TRUE).topic),
                   "-<now>.", body.format>>
            ELSE <<>>
    [] OTHER -> <<"chat-history-", "<now>.", body.format>>

\* Mutant of DownloadExport: an exported chat history is cleared.
DownloadExportClearing ==
  \E body \in ExportBodies, chatRows \in OrderByCreatedAt(chat_history) :
    LET content == ExportContent(body, chatRows)
        filename == ExportFilename(body)
    IN
    /\ Receive("download-export", body)
    /\ genCalls' = <<>>
    /\ chat_history' = IF body.type = "chat" THEN {} ELSE chat_history
    /\ IF body.type \notin ExportTypes
       THEN Respond(400, [error |-> "Invalid export type"])
       ELSE IF ExportThrows(body)
       THEN Respond(500, [error |-> "Failed to export data"])
       ELSE IF IsEmptyText(content)
       THEN Respond(404, [error |-> "Content not found"])
       ELSE Respond(200, [success |-> TRUE, content |-> content,
                          filename |-> filename])
    /\ UNCHANGED <<clock, dbClock, study_plans, notes, flashcard_sets, flashcards,
                   autoInc, pc, local>>

DownloadExport ==
  \E body \in ExportBodies, chatRows \in OrderByCreatedAt(chat_history) :
    LET content == ExportContent(body, chatRows)
        filename == ExportFilename(body)
    IN
    /\ Receive("download-export", body)
    /\ genCalls' = <<>>
    /\ IF body.type \notin ExportTypes
       THEN Respond(400, [error |-> "Invalid export type"])
       ELSE IF ExportThrows(body)
       THEN Respond(500, [error |-> "Failed to export data"])
       ELSE IF IsEmptyText(content)
            THEN Respond(404, [error |-> "Content not found"])
            ELSE Respond(200, [success |-> TRUE, content |-> content,
                               filename |-> filename])
    /\ UNCHANGED <<clock, dbClock, study_plans, notes, flashcard_sets, flashcards,
                   chat_history, autoInc, pc, local>>

\* -------------------------------------------------------------- dashboard
\* JSON_LENGTH(plan_json): the number of elements of a JSON array, the number
\* of members of a JSON object (one here), 1 for a scalar
JsonLength(t) == IF JsonParse(t).kind = "array" THEN Len(JsonParse(t).items) ELSE 1

\* SUM(total_count) over flashcard_sets (0 here when the table is empty,
\* where SUM returns NULL)
RECURSIVE SumTotalCount(_)
SumTotalCount(sets) ==
  IF sets = {} THEN 0
  ELSE LET st == CHOOSE x \in sets : TRUE
       IN st.total_count + SumTotalCount(sets \ {st})

\* SUM(JSON_LENGTH(plan_json)) over study_plans
RECURSIVE SumJsonLength(_)
SumJsonLength(plans) ==
  IF plans = {} THEN 0
  ELSE LET r == CHOOSE x \in plans : TRUE
       IN JsonLength(r.plan_json) + SumJsonLength(plans \ {r})

\* SUM(FLOOR((progress / 100) * JSON_LENGTH(plan_json))) over study_plans
RECURSIVE SumCompleted(_)
SumCompleted(plans) ==
  IF plans = {} THEN 0
  ELSE LET r == CHOOSE x \in plans : TRUE
       IN ((r.progress * JsonLength(r.plan_json)) \div 100) + SumCompleted(plans \ {r})

DashboardStats ==
  /\ Receive("dashboard-stats", <<>>)
  /\ genCalls' = <<>>
  /\ Respond(200, [success |-> TRUE,
                   stats |-> [totalNotes |-> Cardinality(notes),
                              totalStudyPlans |-> Cardinality(study_plans),
                              totalFlashcards |-> SumTotalCount(flashcard_sets),
                              totalTasks |-> SumJsonLength(study_plans),
                              completedTasks |-> SumCompleted(study_plans)]])
  /\ UNCHANGED <<clock, dbClock, study_plans, notes, flashcard_sets, flashcards,
                 chat_history, autoInc, pc, local>>

Next ==
  \/ GenerateFlashcards
  \/ SaveFlashcardStatus
  \/ DeleteFlashcard
  \/ GenerateStudyPlan
  \/ UpdateStudyProgress
  \/ DeleteStudyPlan
  \/ UploadPdf
  \/ UploadLocalFile
  \/ GenerateAiNotes
  \/ DeleteNote
  \/ ChatSaveUser
  \/ ChatLoadHistory
  \/ ChatSend
  \/ ChatSaveReply
  \/ GetChatHistory
  \/ ClearChatHistory
  \/ DownloadExport
  \/ DashboardStats

Spec == Init /\ [][Next]_vars

\* ----------------------------------------------------------------- claims
\* A step that serves a request of the given kind to its response.
Serves(op) == served' = served + 1 /\ req'.op = op

\* The known cards a set owns.
KnownCardsOf(setId) == {c \in flashcards : c.set_id = setId /\ c.known}

\* C1: in every state reached by sequentially executed requests, every
\* flashcard set's stored known_count is the number of its cards whose known
\* flag is true, and the knownCount save-flashcard-status returns is that
\* number.
C1_KnownCountConsistent ==
  /\ \A s \in flashcard_sets : s.known_count = Cardinality(KnownCardsOf(s.id))
  /\ (req.op = "save-flashcard-status" /\ resp.status = 200) =>
        resp.body.flashcardSet.knownCount = Cardinality(KnownCardsOf(req.body.setId))

\* A status save has answered for a set of two cards of which one is known.
C1_Witness ==
  /\ req.op = "save-flashcard-status"
  /\ resp.status = 200
  /\ resp.body.flashcardSet.knownCount = 1
  /\ Cardinality(resp.body.flashcardSet.cards) = 2

\* C2: every flashcards row references a flashcard_sets row that exists; in
\* particular none with the deleted set's id remains once DELETE
\* /flashcard/:id has answered.
C2_NoOrphanCards ==
  \A c \in flashcards : \E s \in flashcard_sets : s.id = c.set_id

\* C3: a save-flashcard-status request whose setId matches no
\* flashcard_sets row answers 404 and changes no flashcards row and no
\* flashcard_sets row.
C3_UnknownSetNoMutation ==
  [][(Serves("save-flashcard-status")
        /\ SelectSet(flashcard_sets, req'.body.setId) = {})
       => (resp'.status = 404 /\ flashcards' = flashcards
             /\ flashcard_sets' = flashcard_sets)]_vars
\* The request body carries all three study-plan fields.
PlanFieldsPresent(b) == b.courseName # None /\ b.deadline # None /\ b.hoursPerDay # None

\* C4: a generate-study-plan request that passes validation and whose
\* generation succeeds answers 200, and the stored row and the returned
\* studyPlan carry daysUntil = ceil((deadline - now) / 1 day), totalHours =
\* daysUntil * hoursPerDay, progress 0 and completed false; the prompt asks
\* for ceil(daysUntil / 7) weeks (now + 7 days at 2 hours a day: 7, 14, 1).
C4_StudyPlanDerivation ==
  [][Serves("generate-study-plan") =>
       LET b == req'.body
           sp == resp'.body.studyPlan
           call == genCalls'[1]
           left == DateParse(b.deadline[1]) - clock'
           rows == study_plans' \ study_plans
       IN
       /\ (PlanFieldsPresent(b) /\ left > 0) =>
            /\ Len(genCalls') = 1
            /\ (call.result.ok /\ call.result.parses) => resp'.status = 200
       /\ resp'.status = 200 =>
            /\ (sp.daysUntil - 1) * MsPerDay < left
            /\ left <= sp.daysUntil * MsPerDay
            /\ sp.totalHours = sp.daysUntil * b.hoursPerDay[1]
            /\ sp.progress = 0 /\ sp.completed = FALSE
            /\ Cardinality(rows) = 1
            /\ \A r \in rows :
                 /\ r.id = sp.id
                 /\ r.days_until = sp.daysUntil
                 /\ r.total_hours = sp.totalHours
                 /\ r.hours_per_day = b.hoursPerDay[1]
                 /\ r.progress = 0 /\ r.completed = FALSE
            /\ (call.weeks - 1) * 7 < sp.daysUntil
            /\ sp.daysUntil <= call.weeks * 7
            /\ (left = 7 * MsPerDay /\ b.hoursPerDay[1] = 2) =>
                 (sp.daysUntil = 7 /\ sp.totalHours = 14 /\ call.weeks = 1)]_vars

\* A plan was created 1 ms after midnight for a deadline 7 days after
\* midnight: the quotient is not whole and rounds up to 7 days.
C4_Witness ==
  /\ req.op = "generate-study-plan"
  /\ resp.status = 200
  /\ clock = 1
  /\ resp.body.studyPlan.daysUntil = 7
  /\ resp.body.studyPlan.totalHours = 14
  /\ \E r \in study_plans : r.id = resp.body.studyPlan.id /\ r.days_until = 7

\* The request answered 400, wrote no row and called the generation service
\* not at all.
Rejected == resp'.status = 400 /\ tables' = tables /\ genCalls' = <<>>

\* C5: a request rejected by validation answers 400, writes no row and makes
\* no generation call: generate-study-plan with a field missing or a deadline
\* not in the future, upload-local-file with fileName or fileContent
\* missing, generate-ai-notes with topic and content both missing.
C5_ValidationRejects ==
  [][(served' = served + 1) =>
       /\ (req'.op = "generate-study-plan" /\ ~PlanFieldsPresent(req'.body)) => Rejected
       /\ (req'.op = "generate-study-plan" /\ PlanFieldsPresent(req'.body)
             /\ DateParse(req'.body.deadline[1]) <= clock') => Rejected
       /\ (req'.op = "upload-local-file"
             /\ (req'.body.fileName = None \/ req'.body.fileContent = None)) => Rejected
       /\ (req'.op = "generate-ai-notes"
             /\ req'.body.topic = None /\ req'.body.content = None) => Rejected
       /\ resp'.status = 400 => Rejected]_vars

\* A complete study-plan request with a deadline that has passed was
\* rejected while the tables held rows.
C5_Witness ==
  /\ req.op = "generate-study-plan"
  /\ PlanFieldsPresent(req.body)
  /\ resp.status = 400
  /\ study_plans # {}
  /\ flashcards # {}

\* C6: a successful generate-flashcards request stores and returns as total
\* count the length of the array the generation service returned (not the
\* requested count), inserts exactly that many cards for the new set, all
\* unknown, with known_count 0; a missing topic is stored as "General Study"
\* and a missing count is requested as 5.
C6_FlashcardSetCreation ==
  [][(Serves("generate-flashcards") /\ resp'.status = 200) =>
       LET b == req'.body
           fs == resp'.body.flashcardSet
           call == genCalls'[1]
           returned == call.result.value.items
           newSets == flashcard_sets' \ flashcard_sets
           newCards == flashcards' \ flashcards
       IN
       /\ flashcard_sets \subseteq flashcard_sets'
       /\ flashcards \subseteq flashcards'
       /\ Cardinality(newSets) = 1
       /\ \A st \in newSets :
            /\ st.id = fs.id
            /\ st.total_count = Len(returned)
            /\ st.known_count = 0
            /\ st.topic = (IF b.topic = None THEN "General Study" ELSE b.topic[1])
       /\ fs.totalCount = Len(returned)
       /\ fs.knownCount = 0
       /\ Len(fs.cards) = Len(returned)
       /\ Cardinality(newCards) = Len(returned)
       /\ \A c \in newCards : c.set_id = fs.id /\ c.known = FALSE
       /\ call.cardCount = (IF b.count = None THEN 5 ELSE b.count[1])]_vars

\* Three cards were requested, the service returned two, and the set was
\* stored with a total count of two.
C6_Witness ==
  /\ req.op = "generate-flashcards"
  /\ resp.status = 200
  /\ req.body.count = Some(3)
  /\ resp.body.flashcardSet.totalCount = 2
  /\ \E st \in flashcard_sets :
       st.id = resp.body.flashcardSet.id /\ st.total_count = 2

\* C7: within one POST /chat the user message row is inserted first, then
\* the whole history is read, then the generation service is called, and the
\* assistant row is inserted only after that call succeeded; when the call
\* fails the request answers 500, the user row stays and no assistant row is
\* written.
C7_ChatStepOrder ==
  [][/\ (pc' = "chat-saved" /\ pc # "chat-saved") =>
          /\ pc = "idle"
          /\ Serves("chat")
          /\ genCalls' = <<>>
          /\ \E r \in chat_history' \ chat_history :
               /\ r.role = "user"
               /\ r.content = req'.body.message[1]
               /\ chat_history' = chat_history \cup {r}
     /\ (pc' = "chat-loaded" /\ pc # "chat-loaded") =>
          /\ pc = "chat-saved"
          /\ chat_history' = chat_history
          /\ genCalls' = <<>>
          /\ Len(local'.history) = Cardinality(chat_history)
          /\ \E i \in 1..Len(local'.history) :
               local'.history[i] = [role |-> "user", text |-> req.body.message[1]]
     /\ (req'.op = "chat" /\ genCalls' # genCalls /\ genCalls' # <<>>) =>
          /\ pc = "chat-loaded"
          /\ Len(genCalls') = 1
          /\ genCalls'[1].history = local.history
          /\ chat_history' = chat_history
     /\ (pc' = "chat-replied" /\ pc # "chat-replied") =>
          /\ pc = "chat-loaded"
          /\ genCalls'[1].result.ok
     /\ (\E r \in chat_history' \ chat_history : r.role = "assistant") =>
          /\ pc = "chat-replied"
          /\ genCalls[1].result.ok
          /\ resp'.status = 200
          /\ \A r \in chat_history' \ chat_history :
               r.role = "assistant" /\ r.content = genCalls[1].result.text
     /\ (pc = "chat-loaded" /\ pc' # pc /\ ~genCalls'[1].result.ok) =>
          /\ resp'.status = 500
          /\ pc' = "idle"
          /\ chat_history' = chat_history
          /\ \E r \in chat_history' :
               /\ r.id = autoInc.chat - 1
               /\ r.role = "user"
               /\ r.content = req.body.message[1]]_vars

\* A chat request failed at the generation call after an earlier exchange
\* had completed: its user row is stored behind that exchange's two rows.
C7_Witness ==
  /\ req.op = "chat"
  /\ resp.status = 500
  /\ pc = "idle"
  /\ Cardinality(chat_history) = 3
  /\ \E r \in chat_history : r.id = 3 /\ r.role = "user"

\* C8: GET /chat-history returns every stored message, ordered
\* non-decreasingly by creation time; only /chat and DELETE /chat-history
\* change the table, DELETE empties it and succeeds (also when it is already
\* empty), so a GET that follows a DELETE returns the empty sequence.
C8_ChatHistoryOrdered ==
  [][/\ chat_history' # chat_history => req'.op \in {"chat", "clear-chat-history"}
     /\ Serves("get-chat-history") =>
          LET h == resp'.body.chatHistory
          IN
          /\ resp'.status = 200
          /\ Len(h) = Cardinality(chat_history)
          /\ \A r \in chat_history : \E i \in 1..Len(h) :
               h[i] = [id |-> r.id, role |-> r.role, content |-> r.content,
                       timestamp |-> r.created_at]
          /\ \A i, j \in 1..Len(h) : i < j => h[i].timestamp <= h[j].timestamp
          /\ req.op = "clear-chat-history" => h = <<>>
     /\ Serves("clear-chat-history") =>
          (resp'.status = 200 /\ chat_history' = {})]_vars

\* The history was fetched with a user message and a later reply stored.
C8_Witness ==
  /\ req.op = "get-chat-history"
  /\ Len(resp.body.chatHistory) = 2
  /\ resp.body.chatHistory[1].role = "user"
  /\ resp.body.chatHistory[2].role = "assistant"
  /\ resp.body.chatHistory[1].timestamp < resp.body.chatHistory[2].timestamp

\* C9: a delete of a study plan, note or flashcard set whose id matches no
\* row answers success and changes no table; after any such delete no row
\* with that id is left, so the same delete issued again changes nothing.
C9_DeleteAbsentIsNoop ==
  [][(served' = served + 1) =>
       /\ req'.op = "delete-studyplan" =>
            /\ resp'.status = 200
            /\ SelectPlan(study_plans, req'.body.id) = {} => tables' = tables
            /\ SelectPlan(study_plans', req'.body.id) = {}
       /\ req'.op = "delete-note" =>
            /\ resp'.status = 200
            /\ {r \in notes : r.id = req'.body.id} = {} => tables' = tables
            /\ {r \in notes' : r.id = req'.body.id} = {}
       /\ req'.op = "delete-flashcard" =>
            /\ resp'.status = 200
            /\ SelectSet(flashcard_sets, req'.body.id) = {} => tables' = tables
            /\ SelectSet(flashcard_sets', req'.body.id) = {}]_vars

\* A delete named study plan 2, which never existed, while plan 1 was stored.
C9_Witness ==
  /\ req.op = "delete-studyplan"
  /\ resp.status = 200
  /\ req.body.id = 2
  /\ autoInc.plans = 2
  /\ \E r \in study_plans : r.id = 1

\* C10: update-study-progress answers 404 and changes nothing when its id
\* matches no row; otherwise it sets that row's progress and completed to
\* the supplied values, each as supplied, and leaves the row's other columns
\* and every other row unchanged.
C10_UpdateProgressFrame ==
  [][Serves("update-study-progress") =>
       LET b == req'.body
           hit == SelectPlan(study_plans, b.id)
       IN
       /\ hit = {} => (resp'.status = 404 /\ tables' = tables)
       /\ hit # {} =>
            /\ resp'.status = 200
            /\ resp'.body.plan.progress = b.progress
            /\ resp'.body.plan.completed = b.completed
            /\ Cardinality(study_plans') = Cardinality(study_plans)
            /\ \A r \in study_plans : \E n \in study_plans' :
                 /\ n.id = r.id
                 /\ n.course_name = r.course_name
                 /\ n.deadline = r.deadline
                 /\ n.hours_per_day = r.hours_per_day
                 /\ n.days_until = r.days_until
                 /\ n.total_hours = r.total_hours
                 /\ n.plan_json = r.plan_json
                 /\ n.progress = (IF r.id = b.id THEN b.progress ELSE r.progress)
                 /\ n.completed = (IF r.id = b.id THEN b.completed ELSE r.completed)
            /\ <<notes, flashcard_sets, flashcards, chat_history, autoInc>>'
                 = <<notes, flashcard_sets, flashcards, chat_history, autoInc>>]_vars

\* One of two stored plans was set to progress 100 and left not completed.
C10_Witness ==
  /\ req.op = "update-study-progress"
  /\ resp.status = 200
  /\ req.body.progress = 100
  /\ req.body.completed = FALSE
  /\ Cardinality(study_plans) = 2
  /\ \E r \in study_plans : r.id = req.body.id /\ r.progress = 100 /\ ~r.completed

\* The response carries neither content nor filename.
NoExport == "content" \notin DOMAIN resp'.body /\ "filename" \notin DOMAIN resp'.body

\* C11: download-export answers 400 for a type other than study, notes, chat
\* or flashcards, and 404 for type study, notes or flashcards when the id
\* matches no row of that type's table; neither answer carries content or a
\* filename.
C11_ExportErrors ==
  [][Serves("download-export") =>
       LET b == req'.body
       IN
       /\ b.type \notin {"study", "notes", "chat", "flashcards"} =>
            (resp'.status = 400 /\ NoExport)
       /\ (b.type = "study" /\ SelectPlan(study_plans, b.id[1]) = {}) =>
            (resp'.status = 404 /\ NoExport)
       /\ (b.type = "notes" /\ {r \in notes : r.id = b.id[1]} = {}) =>
            (resp'.status = 404 /\ NoExport)
       /\ (b.type = "flashcards" /\ SelectSet(flashcard_sets, b.id[1]) = {}) =>
            (resp'.status = 404 /\ NoExport)]_vars

\* A flashcard export named set 2, which does not exist, while set 1 and its
\* cards were stored, and was answered 404.
C11_Witness ==
  /\ req.op = "download-export"
  /\ req.body.type = "flashcards"
  /\ req.body.id = Some(2)
  /\ resp.status = 404
  /\ \E st \in flashcard_sets : st.id = 1
  /\ flashcards # {}

\* C12: a chat export answers 404, and not success, when chat_history holds
\* no message.
C12_EmptyChatExport ==
  [][(Serves("download-export") /\ req'.body.type = "chat" /\ chat_history = {})
       => resp'.status = 404]_vars

\* The values that follow the given label in an exported text, in order.
RECURSIVE ValuesAfter(_, _)
ValuesAfter(text, label) ==
  IF Len(text) < 2 THEN <<>>
  ELSE IF Head(text) = label
       THEN <<text[2]>> \o ValuesAfter(SubSeq(text, 3, Len(text)), label)
       ELSE ValuesAfter(Tail(text), label)

\* The pieces occur in the text, one after another.
OccursIn(pieces, text) ==
  \E i \in 1..(Len(text) - Len(pieces) + 1) :
    SubSeq(text, i, i + Len(pieces) - 1) = pieces

\* Every field of the flashcard set and of its cards, in id order, can be
\* read back from the exported text.
SetReadBack(text, st, cards) ==
  /\ ValuesAfter(text, "FLASHCARDS: ") = <<st.topic>>
  /\ ValuesAfter(text, "Total Cards: ") = <<ToString(st.total_count)>>
  /\ ValuesAfter(text, "Known: ") = <<ToString(st.known_count)>>
  /\ ValuesAfter(text, "Q: ") = [i \in 1..Len(cards) |-> cards[i].question]
  /\ ValuesAfter(text, "A: ") = [i \in 1..Len(cards) |-> cards[i].answer]
  /\ ValuesAfter(text, "Status: ")
       = [i \in 1..Len(cards) |-> IF cards[i].known THEN "Known" ELSE "Unknown"]

\* Every listed field of the study plan and of its weeks can be read back.
PlanReadBack(text, row) ==
  LET weeks == row.plan_json.json.items
  IN
  /\ ValuesAfter(text, "STUDY PLAN: ") = <<row.course_name>>
  /\ ValuesAfter(text, "Hours per day: ") = <<ToString(row.hours_per_day)>>
  /\ ValuesAfter(text, "Total hours: ") = <<ToString(row.total_hours)>>
  /\ ValuesAfter(text, "Progress: ") = <<ToString(row.progress)>>
  /\ ValuesAfter(text, "Week ") = [i \in 1..Len(weeks) |-> ToString(weeks[i].week)]
  /\ ValuesAfter(text, ": ") = [i \in 1..Len(weeks) |-> weeks[i].topic]
  /\ ValuesAfter(text, "Hours: ") = [i \in 1..Len(weeks) |-> ToString(weeks[i].hours)]
  /\ ValuesAfter(text, "  - ") = Concat([i \in 1..Len(weeks) |-> weeks[i].tasks])

\* The note's content and title can be read back.
NoteReadBack(text, row) ==
  /\ OccursIn(row.content, text)
  /\ OccursIn(row.title, text)

\* C13: a successful export of a study plan, a note or a flashcard set
\* returns a content from which the record's persisted fields can be read
\* back: the set's topic and counts and each card's question, answer and
\* status in order; the plan's course name, hours per day, total hours,
\* progress and each week's number, topic, hours and tasks in order; the
\* note's content and title.
C13_ExportRoundTrip ==
  [][(Serves("download-export") /\ resp'.status = 200) =>
       LET b == req'.body
           text == resp'.body.content
       IN
       /\ b.type = "flashcards" =>
            \A st \in SelectSet(flashcard_sets, b.id[1]) :
              SetReadBack(text, st, OrderById(SelectCards(flashcards, b.id[1])))
       /\ b.type = "study" =>
            \A row \in SelectPlan(study_plans, b.id[1]) : PlanReadBack(text, row)
       /\ b.type = "notes" =>
            \A row \in {r \in notes : r.id = b.id[1]} : NoteReadBack(text, row)]_vars

\* C14: when the text the generation service returned to generate-study-plan
\* or generate-flashcards is not JSON, the request answers 500 with the
\* generic generation-failure error, has made that one call only, and writes
\* no study_plans, flashcard_sets or flashcards row.
C14_ParseFailure ==
  [][(/\ served' = served + 1
      /\ req'.op \in {"generate-study-plan", "generate-flashcards"}
      /\ genCalls' # <<>>
      /\ genCalls'[1].result.ok
      /\ ~genCalls'[1].result.parses)
       =>
       /\ resp'.status = 500
       /\ resp'.body.error =
            (IF req'.op = "generate-study-plan"
             THEN "Failed to generate study plan from AI. Check API key/model."
             ELSE "Failed to generate flashcards from AI. Check API key/model.")
       /\ Len(genCalls') = 1
       /\ study_plans' = study_plans
       /\ flashcard_sets' = flashcard_sets
       /\ flashcards' = flashcards
       /\ autoInc' = autoInc]_vars

\* A study-plan request got a text that is not JSON and was answered 500
\* while a plan and a flashcard set were stored.
C14_Witness ==
  /\ req.op = "generate-study-plan"
  /\ resp.status = 500
  /\ Len(genCalls) = 1
  /\ genCalls[1].result = GenGarbage
  /\ study_plans # {}
  /\ flashcard_sets # {}

\* C15: a save-flashcard-status request that repeats the request served just
\* before it (same setId, cardId and known) leaves every flashcards row and
\* every set's known_count as the first execution left them, and returns the
\* same status and the same knownCount.
C15_SaveStatusIdempotent ==
  [][(Serves("save-flashcard-status") /\ req'.again) =>
       /\ flashcards' = flashcards
       /\ flashcard_sets' = flashcard_sets
       /\ resp'.status = resp.status
       /\ resp'.status = 200 =>
            resp'.body.flashcardSet.knownCount = resp.body.flashcardSet.knownCount]_vars

\* The request that marked a card of a two-card set as known was served a
\* second time and returned a known count of one again.
C15_Witness ==
  /\ req.op = "save-flashcard-status"
  /\ req.again
  /\ req.body.known
  /\ resp.status = 200
  /\ resp.body.flashcardSet.knownCount = 1
  /\ Cardinality(resp.body.flashcardSet.cards) = 2

\* The number of task strings in the weeks of a stored plan.
RECURSIVE TasksIn(_)
TasksIn(weeks) ==
  IF weeks = <<>> THEN 0 ELSE Len(Head(weeks).tasks) + TasksIn(Tail(weeks))

\* Over the given plans, the sum of their task counts and the sum of
\* floor(progress / 100 * task count).
RECURSIVE SumTasks(_)
SumTasks(plans) ==
  IF plans = {} THEN 0
  ELSE LET r == CHOOSE x \in plans : TRUE
       IN TasksIn(r.plan_json.json.items) + SumTasks(plans \ {r})

RECURSIVE SumTasksDone(_)
SumTasksDone(plans) ==
  IF plans = {} THEN 0
  ELSE LET r == CHOOSE x \in plans : TRUE
       IN ((r.progress * TasksIn(r.plan_json.json.items)) \div 100)
            + SumTasksDone(plans \ {r})

\* C16: dashboard-stats reports as totalTasks the number of task strings in
\* the weeks of all stored plans, and as completedTasks the sum over the
\* plans of floor(progress / 100 * the plan's task count).
C16_DashboardTasks ==
  [][Serves("dashboard-stats") =>
       /\ resp'.body.stats.totalTasks = SumTasks(study_plans)
       /\ resp'.body.stats.completedTasks = SumTasksDone(study_plans)]_vars

\* The source a producer stores.
SourceOf(op) ==
  CASE op = "upload-pdf" -> "pdf"
    [] op = "upload-local-file" -> "local_file"
    [] op = "generate-ai-notes" -> "ai"
    [] OTHER -> "none"

\* C17: every stored note has non-empty content and a source among pdf,
\* local_file and ai; a note row is created by one of the three producers
\* only, with that producer's source; and a stored row is never changed: it
\* stays as written until DELETE /note/:id with its id removes it.
C17_NotesFixedAtCreation ==
  [][/\ \A r \in notes' :
          ~IsEmptyText(r.content) /\ r.source \in {"pdf", "local_file", "ai"}
     /\ \A r \in notes' \ notes :
          /\ req'.op \in {"upload-pdf", "upload-local-file", "generate-ai-notes"}
          /\ r.source = SourceOf(req'.op)
          /\ \A old \in notes : old.id # r.id
     /\ \A r \in notes \ notes' :
          req'.op = "delete-note" /\ req'.body.id = r.id]_vars

\* Notes of all three producers are stored, the AI note made from an empty
\* generated text.
C17_Witness ==
  /\ {r.source : r \in notes} = {"pdf", "local_file", "ai"}
  /\ \E r \in notes : r.source = "ai" /\ r.content[1] = ""

\* C19: once a generate-flashcards request has finished, with success or
\* with an error, every flashcard_sets row has exactly total_count flashcards
\* rows with its set_id.
C19_SetCreatedWithFullBatch ==
  \A st \in flashcard_sets :
    Cardinality(SelectCards(flashcards, st.id)) = st.total_count

\* C20: every stored study plan has a positive hours_per_day, a days_until
\* greater than 0 and total_hours = days_until * hours_per_day > 0.
C20_PlanFieldsPositive ==
  \A r \in study_plans :
    /\ r.hours_per_day > 0
    /\ r.days_until > 0
    /\ r.total_hours = r.days_until * r.hours_per_day
    /\ r.total_hours > 0

\* ------------------------------------------------ concurrent status saves
\* Two save-flashcard-status requests on set 1 whose database statements
\* interleave: each await of the handler is a step of its own.  Here pc,
\* local, req and resp hold one entry per request.
Savers == {"first", "second"}

\* The database as one generate-flashcards request leaves it, whether it
\* answered 200 or failed part way through its card inserts: set 1 with
\* total_count the length of the generated array, and the cards stored before
\* the first insert that threw, all unknown.
ConcurrentInit ==
  \E items \in CardArrays :
  LET body == [topic |-> Some("Bio"), count |-> Some(MaxCards)]
      n == InsertedPrefix(items)
  IN
  /\ clock = 0
  /\ dbClock = 0
  /\ study_plans = {}
  /\ notes = {}
  /\ flashcard_sets = {NewSetRow(1, body, items)}
  /\ flashcards = NewCardRows(1, items, 1, n)
  /\ chat_history = {}
  /\ autoInc = [plans |-> 1, notes |-> 1, sets |-> 2, cards |-> n + 1, chat |-> 1]
  /\ req = [p \in Savers |-> [op |-> "none", body |-> <<>>]]
  /\ resp = [p \in Savers |-> [status |-> 0, body |-> <<>>]]
  /\ genCalls = <<>>
  /\ pc = [p \in Savers |-> "start"]
  /\ local = [p \in Savers |-> [sets |-> {}, cards |-> {}, newKnownCount |-> 0]]
  /\ served = 0

\* The request is received and its first statement runs:
\* UPDATE flashcards SET known = ? WHERE id = ? AND set_id = ?
SaveUpdateCard ==
  \E p \in Savers, cardId \in 1..MaxCards, known \in BOOLEAN :
    LET body == [setId |-> 1, cardId |-> cardId, known |-> known]
    IN
    /\ pc[p] = "start"
    /\ served' = served + 1
    /\ req' = [req EXCEPT ![p] = [op |-> "save-flashcard-status", body |-> body]]
    /\ flashcards' = UpdateCardKnown(flashcards, known, cardId, 1)
    /\ pc' = [pc EXCEPT ![p] = "updated"]
    /\ UNCHANGED <<clock, dbClock, study_plans, notes, flashcard_sets, chat_history,
                   autoInc, resp, genCalls, local>>

\* SELECT ... FROM flashcard_sets WHERE id = ?, and the 404 answer when no
\* row comes back
SaveSelectSet ==
  \E p \in Savers :
    LET sets == SelectSet(flashcard_sets, req[p].body.setId)
    IN
    /\ pc[p] = "updated"
    /\ local' = [local EXCEPT ![p].sets = sets]
    /\ IF sets # {}
       THEN /\ pc' = [pc EXCEPT ![p] = "found"]
            /\ UNCHANGED resp
       ELSE /\ pc' = [pc EXCEPT ![p] = "done"]
            /\ resp' = [resp EXCEPT ![p] = [status |-> 404,
                                            body |-> [error |-> "Flashcard set not found"]]]
    /\ UNCHANGED <<clock, dbClock, study_plans, notes, flashcard_sets, flashcards,
                   chat_history, autoInc, req, genCalls, served>>

\* SELECT id, question, answer, known FROM flashcards WHERE set_id = ?, and
\* the count of the known cards among the rows
SaveScanCards ==
  \E p \in Savers :
    LET cards == SelectCards(flashcards, req[p].body.setId)
    IN
    /\ pc[p] = "found"
    /\ local' = [local EXCEPT ![p].cards = cards,
                              ![p].newKnownCount = NewKnownCount(cards)]
    /\ pc' = [pc EXCEPT ![p] = "scanned"]
    /\ UNCHANGED <<clock, dbClock, study_plans, notes, flashcard_sets, flashcards,
                   chat_history, autoInc, req, resp, genCalls, served>>

\* UPDATE flashcard_sets SET known_count = ? WHERE id = ?, and the response
SaveWriteCount ==
  \E p \in Savers :
    /\ pc[p] = "scanned"
    /\ flashcard_sets' = UpdateKnownCount(flashcard_sets, local[p].newKnownCount,
                                          req[p].body.setId)
    /\ resp' = [resp EXCEPT ![p] =
                  [status |-> 200,
                   body |-> [success |-> TRUE,
                             flashcardSet |->
                               [id |-> req[p].body.setId,
                                totalCount |-> (CHOOSE s \in local[p].sets : TRUE).total_count,
                                knownCount |-> local[p].newKnownCount,
                                cards |-> local[p].cards]]]]
    /\ pc' = [pc EXCEPT ![p] = "done"]
    /\ UNCHANGED <<clock, dbClock, study_plans, notes, flashcards, chat_history,
                   autoInc, req, genCalls, local, served>>

ConcurrentNext ==
  \/ SaveUpdateCard
  \/ SaveSelectSet
  \/ SaveScanCards
  \/ SaveWriteCount

ConcurrentSpec == ConcurrentInit /\ [][ConcurrentNext]_vars

\* C18: with the statements of two save-flashcard-status requests on one set
\* interleaved, each request writes as known_count the number of known cards
\* among the rows of its own scan, whatever the cards are when it writes: the
\* last writer wins, and the count it leaves can differ from the number of
\* the set's known cards.
C18_LastWriterWins ==
  [][\A p \in Savers :
       (pc[p] = "scanned" /\ pc'[p] = "done") =>
         /\ flashcards' = flashcards
         /\ \A st \in flashcard_sets' :
              st.id = req[p].body.setId =>
                st.known_count = Cardinality({c \in local[p].cards : c.known})]_vars

\* Both requests have answered 200, and the stored known_count of set 1 is
\* not the number of its known cards.
C18_Witness ==
  /\ \A p \in Savers : pc[p] = "done" /\ resp[p].status = 200
  /\ \E st \in flashcard_sets :
       st.id = 1 /\ st.known_count # Cardinality(KnownCardsOf(1))

\* C21: in every reachable state every persisted study plan has an integer
\* progress between 0 and 100 inclusive.
C21_ProgressInRange ==
  \A r \in study_plans : r.progress \in 0..100

\* C22: save-flashcard-status adds and removes no flashcards row, changes the
\* known flag of at most one card, and only of the card whose id is cardId and
\* whose set_id is setId; when no card has both ids no flashcards row changes;
\* and no set other than setId changes.
C22_SaveStatusFrame ==
  [][Serves("save-flashcard-status") =>
       LET b == req'.body
           target == {c \in flashcards : c.id = b.cardId /\ c.set_id = b.setId}
       IN
       /\ {c.id : c \in flashcards'} = {c.id : c \in flashcards}
       /\ Cardinality(flashcards') = Cardinality(flashcards)
       /\ \A c \in flashcards :
            \/ c \in flashcards'
            \/ c \in target /\ [c EXCEPT !.known = b.known] \in flashcards'
       /\ Cardinality(flashcards \ flashcards') <= 1
       /\ target = {} => flashcards' = flashcards
       /\ {s.id : s \in flashcard_sets'} = {s.id : s \in flashcard_sets}
       /\ \A s \in flashcard_sets : s.id # b.setId => s \in flashcard_sets'
       /\ \A s \in flashcard_sets :
            \A t \in flashcard_sets' :
              s.id = t.id => t = [s EXCEPT !.known_count = t.known_count]]_vars

\* A status save with known = true has been served that named an existing set
\* and a card of another existing set, and that card is still unknown.
C22_Witness ==
  /\ req.op = "save-flashcard-status"
  /\ resp.status = 200
  /\ req.body.known
  /\ \E c \in flashcards :
       /\ c.id = req.body.cardId
       /\ c.set_id # req.body.setId
       /\ ~c.known
       /\ \E s \in flashcard_sets : s.id = c.set_id

\* C23: every persisted study plan's plan value is an ordered sequence of
\* week entries, each with week (an integer >= 1), topic, hours and tasks (a
\* sequence of strings), whatever parseable JSON value the service returned;
\* and no study export of a persisted plan answers 500.
C23_PlanIsWeekSequence ==
  /\ \A r \in study_plans :
       LET plan == JsonParse(r.plan_json)
       IN /\ plan.kind = "array"
          /\ \A i \in 1..Len(plan.items) :
               /\ DOMAIN plan.items[i] = {"week", "topic", "hours", "tasks"}
               /\ plan.items[i].week \in Nat \ {0}
               /\ plan.items[i].tasks \in Seq(STRING)
  /\ ~(req.op = "download-export" /\ req.body.type = "study" /\ resp.status = 500)

\* C24: every call of the generation service made by generate-study-plan or
\* generate-flashcards asks for a response constrained to a single JSON
\* value, and no call made by generate-ai-notes or chat does.
C24_StructuredCalls ==
  \A i \in 1..Len(genCalls) :
    genCalls[i].structured
      <=> genCalls[i].endpoint \in {"generate-study-plan", "generate-flashcards"}

\* The adapter's name of a persisted role.
RoleForAdapter(role) ==
  CASE role = "user" -> "user"
    [] role = "assistant" -> "model"

\* The rows that were persisted when the history of the current chat call was
\* read: all rows, less the reply row once the reply has been saved.
RowsAtChatCall ==
  IF pc = "idle" /\ resp.status = 200
  THEN {r \in chat_history : r.id # resp.body.response.id}
  ELSE chat_history

\* C25: every persisted chat row has role user or assistant; the history
\* handed to the generation service lists the persisted rows with a user row
\* as user and an assistant row as model; and every reply of the service is
\* persisted with role assistant.
C25_ChatRoles ==
  /\ \A r \in chat_history : r.role \in {"user", "assistant"}
  /\ \A i \in 1..Len(genCalls) :
       genCalls[i].endpoint = "chat" =>
         \E rows \in OrderByCreatedAt(RowsAtChatCall) :
           /\ Len(genCalls[i].history) = Len(rows)
           /\ \A k \in 1..Len(rows) :
                /\ genCalls[i].history[k].role = RoleForAdapter(rows[k].role)
                /\ genCalls[i].history[k].text = rows[k].content
  /\ (req.op = "chat" /\ resp.status = 200) =>
       \E r \in chat_history :
         /\ r.id = resp.body.response.id
         /\ r.role = "assistant"
         /\ r.content = genCalls[1].result.text

\* A chat request was answered whose history held an assistant row of an
\* earlier exchange, handed over as model.
C25_Witness ==
  /\ req.op = "chat"
  /\ resp.status = 200
  /\ \E k \in 1..Len(genCalls[1].history) : genCalls[1].history[k].role = "model"
  /\ \E r \in chat_history : r.role = "assistant" /\ r.id = resp.body.response.id

\* The endpoints that call the generation service.
GeneratingOps ==
  {"generate-study-plan", "generate-ai-notes", "generate-flashcards", "chat"}

\* Whether a request of a generating endpoint passes its validation, at the
\* time now it reads off the clock.
PassesValidation(op, b, now) ==
  CASE op = "generate-study-plan" ->
         PlanFieldsPresent(b) /\ DateParse(b.deadline[1]) > now
    [] op = "generate-ai-notes" -> b.topic # None \/ b.content # None
    [] op = "generate-flashcards" -> TRUE
    [] op = "chat" -> b.message # None
    [] OTHER -> FALSE

\* C26: no request makes more than one call of the generation service.  A
\* request to generate-study-plan, generate-ai-notes, generate-flashcards or
\* chat that passes validation has made exactly one call by the time it is
\* answered, whether that call failed or not, and the call once made is
\* neither repeated nor replaced; every other request is answered with no call.
C26_OneGenerationCall ==
  [][/\ Len(genCalls') <= 1
     /\ (served' = served /\ genCalls # <<>>) => genCalls' = genCalls
     /\ (pc' = "idle" /\ (served' = served + 1 \/ pc # "idle")) =>
          /\ Len(genCalls') =
               IF PassesValidation(req'.op, req'.body, clock') THEN 1 ELSE 0
          /\ genCalls' # <<>> => genCalls'[1].endpoint = req'.op]_vars

\* A chat request whose only generation call failed has been answered 500.
C26_Witness ==
  /\ req.op = "chat"
  /\ pc = "idle"
  /\ resp.status = 500
  /\ Len(genCalls) = 1
  /\ ~genCalls[1].result.ok

\* C27: download-export, for every type, id and format and whether it answers
\* 200, 400, 404 or 500, leaves every row of study_plans, notes,
\* flashcard_sets, flashcards and chat_history as it was and makes no call of
\* the generation service.
C27_ExportReadOnly ==
  [][Serves("download-export") =>
       /\ study_plans' = study_plans
       /\ notes' = notes
       /\ flashcard_sets' = flashcard_sets
       /\ flashcards' = flashcards
       /\ chat_history' = chat_history
       /\ genCalls' = <<>>]_vars

\* A study export of a stored plan was answered with its text while another
\* table held rows.
C27_Witness ==
  /\ req.op = "download-export"
  /\ req.body.type = "study"
  /\ resp.status = 200
  /\ study_plans # {}
  /\ \E r \in study_plans : r.id = req.body.id[1]
  /\ flashcards # {} \/ notes # {} \/ chat_history # {}

\* The user rows left by a chat request whose generation call failed: in
\* sequential execution the row inserted next after a user row is the reply
\* to it, unless the call failed and the next row is a later user message.
FailedUserRows ==
  {r \in chat_history :
     /\ r.role = "user"
     /\ \E n \in chat_history : n.id = r.id + 1 /\ n.role = "user"}

\* The positions of the user-role entries of an adapter history.
UserEntries(history) == {k \in 1..Len(history) : history[k].role = "user"}

\* C28: a chat row, and so the user message of a chat whose generation call
\* failed, leaves chat_history only by DELETE /chat-history; every later chat
\* hands every persisted user message to the service as a user-role entry;
\* and when a failed chat's message is among them the history holds two
\* consecutive user-role entries.
C28_FailedMessageStays ==
  [][/\ (chat_history \ chat_history' # {}) => Serves("clear-chat-history")
     /\ (pc = "chat-loaded" /\ genCalls' # <<>>) =>
          LET history == genCalls'[1].history
          IN /\ Cardinality(UserEntries(history))
                  = Cardinality({r \in chat_history : r.role = "user"})
             /\ \A r \in chat_history :
                  r.role = "user" =>
                    \E k \in UserEntries(history) : history[k].text = r.content
             /\ FailedUserRows # {} =>
                  \E k \in 1..(Len(history) - 1) :
                    history[k].role = "user" /\ history[k + 1].role = "user"]_vars

\* A chat after a failed one has made its call: the failed chat's message is
\* still persisted and the history handed over holds two user entries in a row.
C28_Witness ==
  /\ req.op = "chat"
  /\ genCalls # <<>>
  /\ FailedUserRows # {}
  /\ \E k \in 1..(Len(genCalls[1].history) - 1) :
       genCalls[1].history[k].role = "user" /\ genCalls[1].history[k + 1].role = "user"

C30_KnownCountBounded ==
  [][/\ \A s \in flashcard_sets : 0 <= s.known_count /\ s.known_count <= s.total_count
     /\ \A s \in flashcard_sets' : 0 <= s.known_count /\ s.known_count <= s.total_count
     /\ \A s \in flashcard_sets :
          \A t \in flashcard_sets' : t.id = s.id => t.total_count = s.total_count]_vars

\* Both interleaved saves have answered on a set whose generation failed part
\* way (fewer cards than total_count), and its only card is counted as known.
C30_Witness ==
  /\ \A p \in Savers : pc[p] = "done" /\ resp[p].status = 200
  /\ \E s \in flashcard_sets :
       /\ Cardinality(SelectCards(flashcards, s.id)) < s.total_count
       /\ s.known_count = Cardinality(SelectCards(flashcards, s.id))
       /\ s.known_count >= 1
====
